---- MODULE Spec2Model ----
(***************************************************************************)
(* FlameUp (src/main.cpp): a directory-snapshot backup utility.            *)
(*                                                                         *)
(* The model follows one process at a time through main(): the dispatch    *)
(* to list / restore / delete / instant backup / daemon loop, and          *)
(* perform_backup step by step (source check, catalog scan, one eviction   *)
(* per loop iteration, naming, recursive copy).  The file system under the *)
(* backup root, the source directory and the restore target persist        *)
(* between invocations.                                                    *)
(*                                                                         *)
(* File names are sequences of character codes, so that prefix tests and   *)
(* std::string comparison are computed, not assumed.                       *)
(***************************************************************************)
EXTENDS Integers, Sequences, FiniteSets, TLC

(***************************************************************************)
(* Bounds of the model.                                                    *)
(***************************************************************************)
\* The steady clock runs from 0 to MaxTime seconds.
MaxTime == 125
\* Number of main() invocations in a behaviour.
MaxRuns == 2
\* Number of backup cycles of one daemon process.
MaxCycles == 3
\* Number of events of the environment in a behaviour: changes the user
\* makes to the source directory, and failures (an I/O error, a clock that
\* cannot be converted, a config file without a path).
MaxEvents == 1
\* time_t of the system clock when the steady clock reads 0
\* (1735689599 is 2024-12-31 23:59:59 UTC).
WallBase == 1735689599
\* time_t of the oldest snapshot of the initial catalogs
\* (1704067200 is 2024-01-01 00:00:00 UTC).
OldBase == 1704067200

(***************************************************************************)
(* Program constants.                                                      *)
(***************************************************************************)
\* std::chrono::minutes: one interval unit is 60 seconds.
SecondsPerMinute == 60
SecondsPerDay == 86400

(***************************************************************************)
(* Strings as sequences of character codes.                                *)
(***************************************************************************)
Ch0 == 48
ChDash == 45
ChUnderscore == 95

\* "Backup_"
BackupPrefix == <<66, 97, 99, 107, 117, 112, ChUnderscore>>
\* "Backup_Error"
BackupErrorName == BackupPrefix \o <<69, 114, 114, 111, 114>>

Min2(a, b) == IF a < b THEN a ELSE b
Max2(a, b) == IF a > b THEN a ELSE b

\* std::string::starts_with
StartsWith(s, p) ==
    /\ Len(s) >= Len(p)
    /\ \A i \in 1..Len(p) : s[i] = p[i]

\* std::string operator< : lexicographic on the character codes
StrLess(a, b) ==
    \E k \in 1..(Min2(Len(a), Len(b)) + 1) :
        /\ \A i \in 1..(k - 1) : a[i] = b[i]
        /\ \/ (k = Len(a) + 1 /\ k <= Len(b))
           \/ (k <= Len(a) /\ k <= Len(b) /\ a[k] < b[k])

\* std::string operator>
StrGreater(a, b) == StrLess(b, a)

(***************************************************************************)
(* make_timestamp_folder_name: localtime, then put_time                    *)
(* "%Y-%m-%d_%H-%M-%S" behind "Backup_".                                   *)
(***************************************************************************)
\* The civil date of a day number counted from 1970-01-01 (proleptic
\* Gregorian calendar), as localtime computes tm_year, tm_mon, tm_mday.
CivilFromDays(days) ==
    LET z == days + 719468
        era == z \div 146097
        doe == z - era * 146097
        yoe == (doe - doe \div 1460 + doe \div 36524 - doe \div 146096) \div 365
        doy == doe - (365 * yoe + yoe \div 4 - yoe \div 100)
        mp == (5 * doy + 2) \div 153
        d == doy - (153 * mp + 2) \div 5 + 1
        m == IF mp < 10 THEN mp + 3 ELSE mp - 9
        y == yoe + era * 400 + (IF m <= 2 THEN 1 ELSE 0)
    IN  [year |-> y, mon |-> m, mday |-> d]

\* std::tm of a time_t (the zone of the model is UTC).
LocalTime(t) ==
    LET days == t \div SecondsPerDay
        rem == t % SecondsPerDay
        c == CivilFromDays(days)
    IN  [year |-> c.year, mon |-> c.mon, mday |-> c.mday,
         hour |-> rem \div 3600, min |-> (rem % 3600) \div 60, sec |-> (rem % 60)]

\* A field printed zero-padded to two digits (%m %d %H %M %S).
Pad2(n) == <<Ch0 + ((n \div 10) % 10), Ch0 + (n % 10)>>
\* %Y of a four digit year.
Pad4(n) == <<Ch0 + ((n \div 1000) % 10), Ch0 + ((n \div 100) % 10)>> \o Pad2(n % 100)

\* put_time(&tm, "%Y-%m-%d_%H-%M-%S")
PutTime(tm) ==
    Pad4(tm.year) \o <<ChDash>> \o Pad2(tm.mon) \o <<ChDash>> \o Pad2(tm.mday)
    \o <<ChUnderscore>>
    \o Pad2(tm.hour) \o <<ChDash>> \o Pad2(tm.min) \o <<ChDash>> \o Pad2(tm.sec)

\* The time zone of the process, which localtime_s reads from the
\* environment: UTC, or central European time with its summer time of 2024
\* (UTC+2 from 2024-03-31 01:00:00 UTC until 2024-10-27 01:00:00 UTC,
\* UTC+1 otherwise).
SummerTimeStart == 1711846800
SummerTimeEnd == 1729990800
Zones == {"UTC", "Europe/Berlin"}
UtcOffset(zone, t) ==
    IF zone = "UTC" THEN 0
    ELSE IF SummerTimeStart <= t /\ t < SummerTimeEnd THEN 2 * 3600
    ELSE 3600

\* std::tm of a time_t in a zone.
LocalTimeIn(zone, t) == LocalTime(t + UtcOffset(zone, t))

\* The name make_timestamp_folder_name gives at t in a zone.
NameIn(zone, t) == BackupPrefix \o PutTime(LocalTimeIn(zone, t))

\* make_timestamp_folder_name with the system clock at t; clockOk is
\* whether localtime_s succeeded.
make_timestamp_folder_name(t, clockOk) ==
    IF ~clockOk THEN BackupErrorName ELSE BackupPrefix \o PutTime(LocalTime(t))

(***************************************************************************)
(* File trees.  A tree is a function from the relative paths of its files  *)
(* to their contents.                                                      *)
(***************************************************************************)
EmptyTree == [f \in {} |-> 0]
\* The source as first backed up, and after an edit that changes file 1
\* and adds file 2.
TreeA == (1 :> 1)
TreeB == (1 :> 2) @@ (2 :> 1)
\* What a restore target holds before a restore.
TreeT == (3 :> 1)

\* The tree restricted to the paths in S.
Restrict(tree, S) == [f \in (DOMAIN tree) \cap S |-> tree[f]]

\* Names of entries of the backup root that no backup created.
\* "notes.txt", "Other", "Backup_file" (a regular file), "backup_old"
StrayFile == <<110, 111, 116, 101, 115, 46, 116, 120, 116>>
OtherDir == <<79, 116, 104, 101, 114>>
BackupNamedFile == BackupPrefix \o <<102, 105, 108, 101>>
LowerCaseDir == <<98, 97, 99, 107, 117, 112, ChUnderscore, 111, 108, 100>>
\* A snapshot name that no entry has: "Backup_none"
MissingName == BackupPrefix \o <<110, 111, 110, 101>>

Dir(tree) == [dir |-> TRUE, tree |-> tree]
File(data) == [dir |-> FALSE, tree |-> (0 :> data)]

Strays ==
    (StrayFile :> File(7)) @@ (OtherDir :> Dir(TreeT))
    @@ (BackupNamedFile :> File(8)) @@ (LowerCaseDir :> Dir(EmptyTree))

\* The snapshots of an initial catalog: one per day from OldBase on.
NumOld == 3
OldName(k) == make_timestamp_folder_name(OldBase + k * SecondsPerDay, TRUE)
OldSnapshots(K) == [n \in {OldName(k) : k \in K} |-> Dir(TreeA)]

NoEntries == [n \in {} |-> Dir(EmptyTree)]

(***************************************************************************)
(* The state.                                                              *)
(***************************************************************************)
VARIABLES
    rootExists,   \* whether the backup root directory exists
    entries,      \* the entries directly under the backup root, by name
    source,       \* the source path: [kind, tree]
    target,       \* the restore target path: [kind, tree, parent]
    now,          \* the steady clock, in seconds
    build,        \* what the build leaves implementation-defined
    readme,       \* whether README.txt is in the working directory
    probe,        \* the arguments and results of a function applied alone
    pc,           \* where the running process is; "idle" when there is none
    config,       \* BackupConfig of the running process
    backups,      \* cleanup_old_backups: the vector backups (names)
    newBackupName,\* perform_backup: newBackupName
    success,      \* the value perform_backup returned
    startTime,    \* daemon loop: startTime
    exitCode,     \* the exit code of the last process that ended
    out,          \* what the process printed (this run, or this daemon cycle)
    scanned,      \* history: the Backup_ directories the last scan found
    evicted,      \* history: the names the current retention pass removed
    prev,         \* history: [start, end, ok] of the previous daemon cycle
    runs,         \* history: number of invocations so far
    cycles,       \* history: number of backup cycles of the daemon process
    lastOp,       \* history: the operation main dispatched to last
    created,      \* history: whether some perform_backup returned true
    events        \* history: number of events of the environment so far

vars == <<rootExists, entries, source, target, now, build, readme, probe, pc, config, backups,
          newBackupName, success, startTime, exitCode, out, scanned, evicted,
          prev, runs, cycles, lastOp, created, events>>

fsVars == <<rootExists, entries>>
procVars == <<pc, config, backups, newBackupName, success, startTime, exitCode, out>>
histVars == <<scanned, evicted, prev, runs, cycles, lastOp, created>>

\* std::optional<std::string>
NoArg == [has |-> FALSE, val |-> <<>>]
Arg(n) == [has |-> TRUE, val |-> n]
NoProbe == [zone |-> "", t1 |-> 0, t2 |-> 0, done |-> FALSE,
            name1 |-> <<>>, name2 |-> <<>>]
NoPrev == [start |-> -1, end |-> -1, ok |-> FALSE]

(***************************************************************************)
(* parse_arguments.  A command line is a record of what its flags give:    *)
(* max and interval are the text after -m and -i ("" when the flag is      *)
(* absent), path is the text after -p, restoreTo the text after            *)
(* --restore-to.                                                           *)
(***************************************************************************)
DefaultMaxBackups == 10
DefaultInterval == 30

IsDigit(c) == c >= Ch0 /\ c <= Ch0 + 9

RECURSIVE DigitsValue(_)
DigitsValue(s) ==
    IF s = <<>> THEN 0
    ELSE 10 * DigitsValue(SubSeq(s, 1, Len(s) - 1)) + (s[Len(s)] - Ch0)

\* The longest prefix of s made of digits.
RECURSIVE DigitPrefix(_)
DigitPrefix(s) ==
    IF s = <<>> \/ ~IsDigit(Head(s)) THEN <<>>
    ELSE <<Head(s)>> \o DigitPrefix(Tail(s))

\* std::stoul: the value of the leading digits; no digits is
\* std::invalid_argument.
StoUL(s) ==
    LET d == DigitPrefix(s)
    IN  [ok |-> d # <<>>, val |-> DigitsValue(d)]

\* parse_arguments: the BackupConfig of a command line, or a throw.
parse_arguments(args) ==
    LET m == IF args.max = <<>> THEN [ok |-> TRUE, val |-> DefaultMaxBackups]
             ELSE StoUL(args.max)
        i == IF args.interval = <<>> THEN [ok |-> TRUE, val |-> DefaultInterval]
             ELSE StoUL(args.interval)
    IN  [ok |-> m.ok /\ i.ok,
         config |-> [sourcePath |-> args.path,
                     maxBackups |-> m.val,
                     interval |-> i.val,
                     daemon |-> args.daemon,
                     instant |-> args.instant,
                     verbose |-> args.verbose,
                     help |-> args.help,
                     listBackups |-> args.list,
                     restoreBackup |-> args.restore,
                     restoreTo |-> args.restoreTo,
                     deleteBackup |-> args.delete]]

\* The BackupConfig of a process that has not parsed its arguments.
NoConfig ==
    [sourcePath |-> "", maxBackups |-> DefaultMaxBackups,
     interval |-> DefaultInterval, daemon |-> FALSE, instant |-> FALSE,
     verbose |-> FALSE, help |-> FALSE, listBackups |-> FALSE,
     restoreBackup |-> NoArg, restoreTo |-> "", deleteBackup |-> NoArg]

\* config.interval in seconds
IntervalSeconds(cfg) == cfg.interval * SecondsPerMinute

(***************************************************************************)
(* The catalog: the directories under the backup root whose name starts    *)
(* with "Backup_", and the two sort orders the program uses.               *)
(***************************************************************************)
\* entry.is_directory() && filename.starts_with("Backup_")
\* The filter without its is_directory test.
IsBackupEntryByName(es, n) == StartsWith(n, BackupPrefix)

IsBackupEntry(es, n) == es[n].dir /\ StartsWith(n, BackupPrefix)

\* What the directory_iterator loops of list_backups and
\* cleanup_old_backups collect.
Catalog(es) == {n \in DOMAIN es : IsBackupEntry(es, n)}

\* The comparator of cleanup_old_backups' std::sort.
OldestFirstReversed(a, b) == StrLess(b, a)

OldestFirst(a, b) == StrLess(a, b)

\* The comparator of list_backups' std::sort.
NewestFirst(a, b) == StrGreater(a, b)

RECURSIVE SortOldestFirst(_)
SortOldestFirst(S) ==
    IF S = {} THEN <<>>
    ELSE LET m == CHOOSE x \in S : \A y \in S \ {x} : OldestFirst(x, y)
         IN  <<m>> \o SortOldestFirst(S \ {m})

RECURSIVE SortNewestFirst(_)
SortNewestFirst(S) ==
    IF S = {} THEN <<>>
    ELSE LET m == CHOOSE x \in S : \A y \in S \ {x} : NewestFirst(x, y)
         IN  <<m>> \o SortNewestFirst(S \ {m})

\* The function es without the name n.
Without(es, n) == [x \in (DOMAIN es) \ {n} |-> es[x]]

\* A line of output.
Msg(m) == [msg |-> m, name |-> <<>>]
MsgN(m, n) == [msg |-> m, name |-> n]

(***************************************************************************)
(* Inputs.                                                                 *)
(***************************************************************************)
\* What the source path can be: a directory, absent, or a regular file.
SourceDir(tree) == [kind |-> "dir", tree |-> tree]
SourceMissing == [kind |-> "missing", tree |-> EmptyTree]
SourceFile == [kind |-> "file", tree |-> EmptyTree]
SourceStates ==
    {SourceDir(TreeA), SourceDir(TreeB), SourceDir(EmptyTree), SourceMissing,
     SourceFile}

TargetMissing == [kind |-> "missing", tree |-> EmptyTree, parent |-> FALSE]
TargetDir(tree) == [kind |-> "dir", tree |-> tree, parent |-> TRUE]

\* Seconds a recursive copy takes.
CopyDurations == {0, SecondsPerMinute, SecondsPerMinute + 1}

\* The largest retention count on a command line.
MaxKeep == 2
\* The intervals (minutes) on a command line.
IntervalMinutes == {0, 1}

\* The decimal text of a number below 100.
NumText(n) == IF n < 10 THEN <<Ch0 + n>> ELSE Pad2(n)
\* "x": no number
NotANumber == <<120>>

BaseArgs ==
    [help |-> FALSE, path |-> "SRC", max |-> <<>>, interval |-> <<>>,
     daemon |-> FALSE, instant |-> FALSE, verbose |-> FALSE, list |-> FALSE,
     restore |-> NoArg, restoreTo |-> "", delete |-> NoArg]

MaxTexts == {NumText(m) : m \in 0..MaxKeep}
IntervalTexts == {NumText(i) : i \in IntervalMinutes}

\* Names given to --restore and --delete.
NameArgs == {OldName(0), MissingName, make_timestamp_folder_name(WallBase, TRUE)}

ListArgs == {[BaseArgs EXCEPT !.list = TRUE]}
RestoreArgs ==
    {[BaseArgs EXCEPT !.restore = Arg(n), !.restoreTo = t] :
        n \in NameArgs, t \in {"", "TARGET"}}
\* Names given to --delete: also the empty name, "..", and the name of an
\* entry that is not a snapshot.
DeleteNames == NameArgs \cup {<<>>, <<46, 46>>, OtherDir}
DeleteArgs == {[BaseArgs EXCEPT !.delete = Arg(n)] : n \in DeleteNames}
InstantArgs ==
    {[BaseArgs EXCEPT !.instant = TRUE, !.max = m] :
        m \in MaxTexts \cup {<<>>, NotANumber}}
    \cup {[BaseArgs EXCEPT !.instant = TRUE, !.max = NumText(1), !.path = ""],
          [BaseArgs EXCEPT !.instant = TRUE, !.max = NumText(1),
                           !.verbose = TRUE]}
DaemonArgs ==
    {[BaseArgs EXCEPT !.daemon = TRUE, !.max = m, !.interval = i] :
        m \in MaxTexts, i \in IntervalTexts}
    \cup {[BaseArgs EXCEPT !.daemon = TRUE, !.max = NumText(1),
                           !.interval = NumText(1), !.path = ""]}
OtherArgs == {BaseArgs, [BaseArgs EXCEPT !.help = TRUE]}

CommandLines ==
    ListArgs \cup RestoreArgs \cup DeleteArgs \cup InstantArgs \cup DaemonArgs
    \cup OtherArgs

(***************************************************************************)
(* Failures of the environment.  An I/O error, a clock that localtime_s    *)
(* cannot convert and a config file without a path are inputs; a behaviour *)
(* has at most MaxEvents of them and of changes to the source.             *)
(***************************************************************************)
\* A step that meets a failure of the environment iff f.
Fault(f) ==
    /\ f => events < MaxEvents
    /\ events' = IF f THEN events + 1 ELSE events

(***************************************************************************)
(* Initial states: no process runs; the backup root is absent, or holds    *)
(* any subset of the old snapshots, with or without the stray entries.     *)
(***************************************************************************)
InitialEntries ==
    {OldSnapshots(K) @@ st : K \in SUBSET (0..(NumOld - 1)),
                             st \in {NoEntries, Strays}}

Init ==
    /\ rootExists \in BOOLEAN
    /\ entries \in (IF rootExists THEN InitialEntries ELSE {NoEntries})
    /\ source \in {SourceDir(TreeA), SourceMissing}
    /\ target \in {TargetMissing, TargetDir(TreeT)}
    /\ now = 0
    /\ build \in [fileSizeOfDirThrows : BOOLEAN]
    /\ readme = FALSE
    /\ probe = NoProbe
    /\ pc = "idle"
    /\ config = NoConfig
    /\ backups = <<>>
    /\ newBackupName = <<>>
    /\ success = FALSE
    /\ startTime = 0
    /\ exitCode = 0
    /\ out = <<>>
    /\ scanned = {}
    /\ evicted = <<>>
    /\ prev = NoPrev
    /\ runs = 0
    /\ cycles = 0
    /\ lastOp = "none"
    /\ created = FALSE
    /\ events = 0

\* The process ends: main returns code.
Exit(code, output) ==
    /\ pc' = "exited"
    /\ exitCode' = code
    /\ out' = output
    /\ config' = NoConfig
    /\ backups' = <<>>
    /\ newBackupName' = <<>>
    /\ success' = FALSE
    /\ startTime' = 0

\* No process is running.
NoProcess == pc \in {"idle", "exited", "crashed"}

(***************************************************************************)
(* main, up to the dispatch: parse_arguments, --help, and the creation of  *)
(* a missing backup root for every operation but --list.  mkdirFails is    *)
(* whether create_directories throws.                                      *)
(***************************************************************************)
\* The creation of the root for --list too.
MustCreateRootForList(cfg, exists) == ~cfg.help /\ ~exists

\* Lines 415-416: the backup root is created when it is missing and the
\* operation is not --list.
MustCreateRoot(cfg, exists) == ~cfg.help /\ ~cfg.listBackups /\ ~exists

Invoke(args, mkdirFails) ==
    /\ NoProcess
    /\ runs < MaxRuns
    /\ runs' = runs + 1
    /\ prev' = NoPrev
    /\ scanned' = {}
    /\ evicted' = <<>>
    /\ cycles' = 0
    /\ LET p == parse_arguments(args)
           mustCreate == p.ok /\ MustCreateRoot(p.config, rootExists)
       IN  /\ mkdirFails => mustCreate
           /\ Fault(mkdirFails)
           /\ IF ~p.ok
              THEN /\ Exit(1, <<Msg("Error")>>)
                   /\ lastOp' = "none"
                   /\ UNCHANGED fsVars
              ELSE IF p.config.help
              THEN /\ Exit(0, <<Msg("Help")>>)
                   /\ lastOp' = "help"
                   /\ UNCHANGED fsVars
              ELSE IF mkdirFails
              THEN /\ Exit(1, <<Msg("Error")>>)
                   /\ lastOp' = "none"
                   /\ UNCHANGED fsVars
              ELSE /\ config' = p.config
                   /\ lastOp' = "none"
                   /\ rootExists' = (rootExists \/ mustCreate)
                   /\ entries' = entries
                   /\ pc' = "dispatch"
                   /\ out' = IF mustCreate /\ p.config.verbose
                             THEN <<Msg("CreatedBackupDirectory")>>
                             ELSE <<>>
                   /\ UNCHANGED <<backups, newBackupName, success,
                                  startTime, exitCode>>
    \* create_readme_file: README.txt is written to the working directory
    \* when it is not there (a failure to write it only warns)
    /\ readme' = TRUE
    /\ UNCHANGED <<source, target, now, build, probe, created>>

(***************************************************************************)
(* list_backups, and main's return after it.                               *)
(***************************************************************************)
\* The lines list_backups prints for the catalog, newest first.
ListLines(es) ==
    LET sorted == SortNewestFirst(Catalog(es))
    IN  [i \in 1..Len(sorted) |-> MsgN("Entry", sorted[i])]

DoList ==
    /\ pc = "dispatch"
    /\ config.listBackups
    /\ IF ~rootExists
       THEN Exit(0, <<Msg("NoBackupDirectoryFound")>>)
       ELSE IF Catalog(entries) = {}
       THEN Exit(0, <<Msg("NoBackupsFound")>>)
       ELSE IF build.fileSizeOfDirThrows
       \* fs::file_size of the first directory throws: main's catch
       THEN Exit(1, <<Msg("AvailableBackups"), Msg("Error")>>)
       ELSE Exit(0, <<Msg("AvailableBackups")>> \o ListLines(entries))
    /\ lastOp' = "list"
    /\ UNCHANGED <<fsVars, source, target, now, build, readme, probe, scanned,
                   evicted, prev, runs, cycles, events, created>>

(***************************************************************************)
(* The file system calls that can fail part way.  Each gives the set of    *)
(* its possible results: ok says whether it returned (or threw), exists    *)
(* and tree what is at the path afterwards, fault whether the result       *)
(* takes an I/O error.                                                     *)
(***************************************************************************)
\* fs::remove_all of a directory holding tree: all is removed, or the call
\* throws with any part of the tree still there.
RemoveAllResults(tree) ==
    {[ok |-> TRUE, exists |-> FALSE, tree |-> EmptyTree, fault |-> FALSE]}
    \cup {[ok |-> FALSE, exists |-> TRUE, tree |-> Restrict(tree, S),
           fault |-> TRUE] : S \in SUBSET (DOMAIN tree)}

\* fs::copy(from, to, recursive) of a directory holding src to a path that
\* is absent (toExists false) or a directory holding dst.  Files are copied
\* in the directory's order, which is unspecified; a file that is already
\* there makes copy_file throw (no overwrite option is given), and any
\* step can fail on an I/O error.
CopyResults(src, toExists, dst) ==
    LET new == (DOMAIN src) \ (DOMAIN dst)
        common == (DOMAIN src) \cap (DOMAIN dst)
        merged(S) == dst @@ Restrict(src, S)
    IN  IF common = {}
        THEN {[ok |-> TRUE, exists |-> TRUE, tree |-> merged(new),
               fault |-> FALSE]}
             \cup {[ok |-> FALSE, exists |-> TRUE, tree |-> merged(S),
                    fault |-> TRUE] : S \in (SUBSET new) \ {new}}
             \cup (IF toExists THEN {}
                   ELSE {[ok |-> FALSE, exists |-> FALSE, tree |-> EmptyTree,
                          fault |-> TRUE]})
        ELSE {[ok |-> FALSE, exists |-> TRUE, tree |-> merged(S),
               fault |-> FALSE] : S \in SUBSET new}

(***************************************************************************)
(* restore_backup, and main's return after it.                             *)
(***************************************************************************)
\* What fs::create_directories, fs::remove_all and fs::copy of
\* restore_backup leave at the target path for the entry e of the backup
\* root, and whether they returned.
RestoreResults(e, tgt) ==
    LET \* fs::create_directories(targetPath.parent_path())
        mkdirFails ==
            IF tgt.parent THEN {}
            ELSE {[ok |-> FALSE, target |-> tgt, fault |-> TRUE]}
        \* fs::remove_all(targetPath), when the target exists
        removeFails ==
            IF tgt.kind = "missing" THEN {}
            ELSE {[ok |-> FALSE,
                   target |-> [kind |-> tgt.kind, tree |-> r.tree,
                               parent |-> TRUE],
                   fault |-> TRUE] :
                     r \in {x \in RemoveAllResults(tgt.tree) : ~x.ok}}
        \* fs::copy(backupPath, targetPath, recursive)
        copies ==
            IF e.dir
            THEN {[ok |-> r.ok,
                   target |-> [kind |-> IF r.exists THEN "dir" ELSE "missing",
                               tree |-> r.tree, parent |-> TRUE],
                   fault |-> r.fault] :
                     r \in CopyResults(e.tree, FALSE, EmptyTree)}
            ELSE {[ok |-> TRUE,
                   target |-> [kind |-> "file", tree |-> e.tree,
                               parent |-> TRUE],
                   fault |-> FALSE],
                  [ok |-> FALSE,
                   target |-> [kind |-> "missing", tree |-> EmptyTree,
                               parent |-> TRUE],
                   fault |-> TRUE]}
    IN  mkdirFails \cup removeFails \cup copies

\* restore_backup with its existence check after the target was prepared.
restore_backup_CheckLast(name, es, tgt) ==
    IF name \notin DOMAIN es
    THEN {[ok |-> FALSE,
           target |-> [kind |-> "missing", tree |-> EmptyTree,
                       parent |-> TRUE],
           fault |-> FALSE, line |-> MsgN("BackupNotFound", name)]}
    ELSE {[ok |-> r.ok, target |-> r.target, fault |-> r.fault,
           line |-> IF r.ok THEN MsgN("Restored", name)
                    ELSE Msg("ErrorDuringRestore")] :
            r \in RestoreResults(es[name], tgt)}

\* restore_backup(backupName, backupRoot, restorePath) with the entries es
\* under the backup root and tgt at the restore path: the possible results
\* [ok, target, fault, line].
restore_backup(name, es, tgt) ==
    IF name \notin DOMAIN es
    THEN {[ok |-> FALSE, target |-> tgt, fault |-> FALSE,
           line |-> MsgN("BackupNotFound", name)]}
    ELSE {[ok |-> r.ok, target |-> r.target, fault |-> r.fault,
           line |-> IF r.ok THEN MsgN("Restored", name)
                    ELSE Msg("ErrorDuringRestore")] :
            r \in RestoreResults(es[name], tgt)}

\* Lines 431-448.
DoRestore ==
    /\ pc = "dispatch"
    /\ ~config.listBackups
    /\ config.restoreBackup.has
    /\ IF config.restoreTo = ""
       THEN /\ Exit(1, <<Msg("RestoreToRequired")>>)
            /\ UNCHANGED <<target, events>>
       ELSE \E r \in restore_backup(config.restoreBackup.val, entries, target) :
              /\ Fault(r.fault)
              /\ target' = r.target
              /\ Exit(IF r.ok THEN 0 ELSE 1, <<r.line>>)
    /\ lastOp' = "restore"
    /\ UNCHANGED <<fsVars, source, now, build, readme, probe, scanned, evicted,
                   prev, runs, cycles, created>>

(***************************************************************************)
(* delete_backup, and main's return after it.                              *)
(***************************************************************************)
\* The entries after fs::remove_all of the entry n ended with result r.
AfterRemove(es, n, r) ==
    IF r.exists THEN [es EXCEPT ![n].tree = r.tree] ELSE Without(es, n)

\* What fs::remove_all can do to the entry e.
RemoveEntryResults(e) ==
    IF e.dir THEN RemoveAllResults(e.tree)
    ELSE {[ok |-> TRUE, exists |-> FALSE, tree |-> EmptyTree, fault |-> FALSE],
          [ok |-> FALSE, exists |-> TRUE, tree |-> e.tree, fault |-> TRUE]}

\* backupRoot / backupName for the names that are not the name of an
\* entry: the empty name gives the backup root itself, ".." the directory
\* that holds the root (the working directory, where README.txt is; the
\* source and the restore target are taken to be elsewhere).
EmptyName == <<>>
DotDot == <<46, 46>>
NamesRoot(name) == name \in {EmptyName, DotDot}

\* What fs::remove_all(backupRoot / name) leaves of the root for such a
\* name, and whether it returned: the root goes with all its entries;
\* for ".." the call can throw in the end, when the path through the
\* removed root no longer resolves.
RemoveRootResults(name) ==
    {[ok |-> ok, readme |-> IF name = DotDot THEN FALSE ELSE readme] :
        ok \in IF name = DotDot THEN BOOLEAN ELSE {TRUE}}

DoDelete ==
    /\ pc = "dispatch"
    /\ ~config.listBackups
    /\ ~config.restoreBackup.has
    /\ config.deleteBackup.has
    /\ LET name == config.deleteBackup.val
       IN  IF NamesRoot(name) /\ rootExists
           THEN \E r \in RemoveRootResults(name) :
                  /\ rootExists' = FALSE
                  /\ entries' = NoEntries
                  /\ readme' = r.readme
                  /\ IF r.ok
                     THEN Exit(0, <<MsgN("Deleted", name)>>)
                     ELSE Exit(1, <<Msg("ErrorDeletingBackup")>>)
                  /\ UNCHANGED events
           ELSE IF name \notin DOMAIN entries
           THEN /\ Exit(1, <<MsgN("BackupNotFound", name)>>)
                /\ UNCHANGED <<rootExists, entries, readme, events>>
           ELSE \E r \in RemoveEntryResults(entries[name]) :
                  /\ Fault(r.fault)
                  /\ entries' = AfterRemove(entries, name, r)
                  /\ IF r.ok
                     THEN Exit(0, <<MsgN("Deleted", name)>>)
                     ELSE Exit(1, <<Msg("ErrorDeletingBackup")>>)
                  /\ UNCHANGED <<rootExists, readme>>
    /\ lastOp' = "delete"
    /\ UNCHANGED <<source, target, now, build, probe, scanned, evicted, prev,
                   runs, cycles, created>>

(***************************************************************************)
(* main's dispatch to the instant backup and to the daemon loop.           *)
(***************************************************************************)
\* The dispatch without the returns after list, restore and delete.
NoManagementOpUnchecked == TRUE

\* Lines 425-453: main has returned when one of --list, --restore and
\* --delete was given.
NoManagementOp ==
    /\ ~config.listBackups
    /\ ~config.restoreBackup.has
    /\ ~config.deleteBackup.has

DoInstant ==
    /\ pc = "dispatch"
    /\ NoManagementOp
    /\ config.instant
    /\ pc' = "pb_begin"
    /\ lastOp' = "instant"
    /\ UNCHANGED <<fsVars, source, target, now, build, readme, probe, config,
                   backups, newBackupName, success, startTime, exitCode, out,
                   scanned, evicted, prev, runs, cycles, events, created>>

DoDaemon ==
    /\ pc = "dispatch"
    /\ NoManagementOp
    /\ ~config.instant
    /\ config.daemon
    /\ pc' = "d_top"
    /\ out' = out \o <<Msg("StartingBackupDaemon")>>
    /\ lastOp' = "daemon"
    /\ UNCHANGED <<fsVars, source, target, now, build, readme, probe, config,
                   backups, newBackupName, success, startTime, exitCode,
                   scanned, evicted, prev, runs, cycles, events, created>>

\* No operation was asked for: print_help, return 1.
DoNothing ==
    /\ pc = "dispatch"
    /\ NoManagementOp
    /\ ~config.instant
    /\ ~config.daemon
    /\ Exit(1, <<Msg("Help")>>)
    /\ lastOp' = "help"
    /\ UNCHANGED <<fsVars, source, target, now, build, readme, probe, scanned,
                   evicted, prev, runs, cycles, events, created>>

(***************************************************************************)
(* perform_backup.                                                         *)
(***************************************************************************)
\* perform_backup returns ok after printing line.
Return(ok, line) ==
    /\ pc' = "pb_ret"
    /\ success' = ok
    /\ out' = out \o <<line>>

\* perform_backup without its test of the source.
SourceUsableUntested(src) == TRUE

\* Line 207: the source exists and is a directory.
SourceUsable(src) == src.kind = "dir"

\* Lines 196-215 and cleanup_old_backups' scan and sort.  noPath is whether
\* read_path_from_file throws (no config file, or no path in it).
PB_Begin(noPath) ==
    /\ pc = "pb_begin"
    /\ noPath => config.sourcePath = ""
    /\ Fault(noPath)
    /\ IF noPath
       THEN /\ Return(FALSE, Msg("ErrorDuringBackup"))
            /\ UNCHANGED <<backups, scanned, evicted>>
       ELSE IF ~SourceUsable(source)
       THEN /\ Return(FALSE, Msg("SourceDoesNotExist"))
            /\ UNCHANGED <<backups, scanned, evicted>>
       ELSE IF ~rootExists
       \* fs::directory_iterator(backupRoot) throws
       THEN /\ Return(FALSE, Msg("ErrorDuringBackup"))
            /\ UNCHANGED <<backups, scanned, evicted>>
       ELSE /\ backups' = SortOldestFirst(Catalog(entries))
            /\ scanned' = Catalog(entries)
            /\ evicted' = <<>>
            /\ pc' = "pb_evict"
            /\ UNCHANGED <<success, out>>
    \* the history of the previous cycle is kept up to here
    /\ prev' = NoPrev
    /\ UNCHANGED <<fsVars, source, target, now, build, readme, probe, config,
                   newBackupName, startTime, exitCode, runs, cycles, lastOp,
                   created>>

\* The loop condition with > in the place of >=.
MustEvictStrict == Len(backups) > config.maxBackups

\* The loop condition that never empties the vector.
MustEvictButLast == Len(backups) >= config.maxBackups /\ Len(backups) > 1

\* The condition of cleanup_old_backups' while loop.
MustEvict == Len(backups) >= config.maxBackups

\* The loop going on after fs::remove_all threw.
EvictFailedIgnored == "pb_evict"

\* Lines 231-234: fs::remove_all throws out of cleanup_old_backups into the
\* catch of perform_backup, which returns false.
EvictFailed == "pb_ret"

\* One iteration of the loop on a vector that is not empty.
PB_Evict ==
    /\ pc = "pb_evict"
    /\ MustEvict
    /\ backups # <<>>
    /\ LET victim == Head(backups)
           line == IF config.verbose
                   THEN <<MsgN("DeletingOldBackup", victim)>> ELSE <<>>
       IN  \E r \in RemoveAllResults(entries[victim].tree) :
             /\ Fault(r.fault)
             /\ entries' = AfterRemove(entries, victim, r)
             /\ IF r.ok
                THEN /\ backups' = Tail(backups)
                     /\ evicted' = Append(evicted, victim)
                     /\ out' = out \o line
                     /\ UNCHANGED <<pc, success>>
                ELSE /\ pc' = EvictFailed
                     /\ success' = FALSE
                     /\ out' = out \o line \o <<Msg("ErrorDuringBackup")>>
                     /\ UNCHANGED <<backups, evicted>>
    /\ UNCHANGED <<rootExists, source, target, now, build, readme, probe,
                   config, newBackupName, startTime, exitCode, scanned, prev,
                   runs, cycles, lastOp, created>>

\* The loop on an empty vector, which only maxBackups = 0 reaches:
\* backups.front() and backups.erase(backups.begin()) of an empty vector
\* are undefined.  The process crashes, or loops on without end.
PB_EvictEmpty ==
    /\ pc = "pb_evict"
    /\ MustEvict
    /\ backups = <<>>
    /\ pc' \in {"crashed", "hung"}
    /\ UNCHANGED <<fsVars, source, target, now, build, readme, probe, config,
                   backups, newBackupName, success, startTime, exitCode, out,
                   histVars, events>>

\* The loop ends; make_timestamp_folder_name.  clockFails is whether
\* localtime_s fails.
PB_Name(clockFails) ==
    /\ pc = "pb_evict"
    /\ ~MustEvict
    /\ Fault(clockFails)
    /\ newBackupName' = make_timestamp_folder_name(WallBase + now, ~clockFails)
    /\ pc' = "pb_copy"
    /\ out' = IF config.verbose
              THEN out \o <<MsgN("BackingUp", newBackupName')>> ELSE out
    /\ UNCHANGED <<fsVars, source, target, now, build, readme, probe, config,
                   backups, success, startTime, exitCode, histVars>>

\* fs::copy(sourcePath, newBackupPath, recursive), which takes d seconds.
PB_Copy(d) ==
    /\ pc = "pb_copy"
    /\ now + d <= MaxTime
    /\ now' = now + d
    /\ LET there == newBackupName \in DOMAIN entries
       IN  IF source.kind # "dir" \/ ~rootExists
              \/ (there /\ ~entries[newBackupName].dir)
           THEN /\ Return(FALSE, Msg("ErrorDuringBackup"))
                /\ UNCHANGED <<entries, events>>
           ELSE \E r \in CopyResults(source.tree, there,
                                     IF there THEN entries[newBackupName].tree
                                     ELSE EmptyTree) :
                  /\ Fault(r.fault)
                  /\ entries' = IF r.exists
                                THEN (newBackupName :> Dir(r.tree)) @@ entries
                                ELSE entries
                  /\ IF r.ok
                     THEN Return(TRUE, MsgN("CreatedBackup", newBackupName))
                     ELSE Return(FALSE, Msg("ErrorDuringBackup"))
    \* history: line 229 was reached
    /\ created' = (created \/ success')
    /\ UNCHANGED <<rootExists, source, target, build, readme, probe, config,
                   backups, newBackupName, startTime, exitCode, scanned,
                   evicted, prev, runs, cycles, lastOp>>

\* main returns after the instant backup.
InstantReturn ==
    /\ pc = "pb_ret"
    /\ config.instant
    /\ Exit(IF success THEN 0 ELSE 1, out)
    /\ UNCHANGED <<fsVars, source, target, now, build, readme, probe, histVars,
                   events>>

(***************************************************************************)
(* The daemon loop.                                                        *)
(***************************************************************************)
\* The top of while (true): startTime is read, perform_backup is called.
DaemonCycleStart ==
    /\ pc = "d_top"
    /\ cycles < MaxCycles
    /\ cycles' = cycles + 1
    /\ startTime' = now
    /\ pc' = "pb_begin"
    /\ out' = IF config.verbose THEN <<Msg("StartingBackupCycle")>> ELSE <<>>
    /\ UNCHANGED <<fsVars, source, target, now, build, readme, probe, config,
                   backups, newBackupName, success, exitCode, scanned, evicted,
                   prev, runs, lastOp, events, created>>

\* The loop without its sleep.
WakeTimeNoSleep(start, interval, t) == t

\* nextBackup taken from the end of the cycle.
WakeTimeFromEnd(start, interval, t) == t + interval

\* Lines 489-498: the steady clock when the loop body ends, for a cycle
\* that started at start and ended at t.  sleep_until returns at
\* nextBackup (the clock of the model has a resolution of one second).
WakeTime(start, interval, t) ==
    LET nextBackup == start + interval
    IN  IF nextBackup > t THEN nextBackup ELSE t

\* After perform_backup: the log line, nextBackup, and sleep_until when
\* nextBackup is still ahead.
DaemonWait ==
    /\ pc = "pb_ret"
    /\ ~config.instant
    /\ LET wake == WakeTime(startTime, IntervalSeconds(config), now)
       IN  /\ wake <= MaxTime
           /\ now' = wake
    /\ out' = out \o (IF success
                      THEN (IF config.verbose
                            THEN <<Msg("BackupCompleted")>> ELSE <<>>)
                      ELSE <<Msg("BackupFailedWillRetry")>>)
    /\ prev' = [start |-> startTime, end |-> now, ok |-> success]
    /\ pc' = "d_top"
    \* the locals of the loop body and of perform_backup are gone
    /\ backups' = <<>>
    /\ newBackupName' = <<>>
    /\ success' = FALSE
    /\ startTime' = 0
    /\ scanned' = {}
    /\ evicted' = <<>>
    /\ UNCHANGED <<fsVars, source, target, build, readme, probe, config,
                   exitCode, runs, cycles, lastOp, events, created>>

(***************************************************************************)
(* The environment: the user changes the source directory between backup   *)
(* cycles.                                                                 *)
(***************************************************************************)
SourceChange(s) ==
    /\ NoProcess \/ pc = "d_top"
    /\ events < MaxEvents
    /\ s # source
    /\ source' = s
    /\ events' = events + 1
    /\ UNCHANGED <<fsVars, target, now, build, readme, probe, procVars,
                   histVars>>

\* The user removes the backup root, with all that is in it, while the
\* daemon waits for its next cycle.
RootRemoved ==
    /\ pc = "d_top"
    /\ rootExists
    /\ events < MaxEvents
    /\ rootExists' = FALSE
    /\ entries' = NoEntries
    /\ events' = events + 1
    /\ UNCHANGED <<source, target, now, build, readme, probe, procVars,
                   histVars>>

(***************************************************************************)
(* Specifications.                                                         *)
(***************************************************************************)
\* The backup steps of perform_backup.
PerformBackup ==
    \/ \E noPath \in BOOLEAN : PB_Begin(noPath)
    \/ PB_Evict
    \/ PB_EvictEmpty
    \/ \E clockFails \in BOOLEAN : PB_Name(clockFails)
    \/ \E d \in CopyDurations : PB_Copy(d)

\* The daemon: one process started with --daemon.
InitDaemon ==
    /\ Init
    /\ target = TargetMissing
    /\ ~build.fileSizeOfDirThrows

NextDaemon ==
    \/ \E args \in DaemonArgs, mkdirFails \in BOOLEAN :
          Invoke(args, mkdirFails)
    \/ DoDaemon
    \/ PerformBackup
    \/ DaemonCycleStart
    \/ DaemonWait
    \/ \E s \in SourceStates : SourceChange(s)
    \/ RootRemoved

SpecDaemon == InitDaemon /\ [][NextDaemon]_vars

\* Instant backups: processes started with --now, one after the other.
InitBackup ==
    /\ Init
    /\ target = TargetMissing
    /\ ~build.fileSizeOfDirThrows

NextInstant ==
    \/ \E args \in InstantArgs, mkdirFails \in BOOLEAN :
          Invoke(args, mkdirFails)
    \/ DoInstant
    \/ PerformBackup
    \/ InstantReturn
    \/ \E s \in SourceStates : SourceChange(s)

SpecInstant == InitBackup /\ [][NextInstant]_vars

\* Instant backups with a retention count, from the configured path.
PlainInstantArgs ==
    {[BaseArgs EXCEPT !.instant = TRUE, !.max = m] : m \in MaxTexts}

\* Listing: --list processes, with instant backups between them.
InitList ==
    /\ Init
    /\ target = TargetMissing

NextList ==
    \/ \E args \in ListArgs \cup PlainInstantArgs, mkdirFails \in BOOLEAN :
          Invoke(args, mkdirFails)
    \/ DoList
    \/ DoInstant
    \/ PerformBackup
    \/ InstantReturn
    \/ \E s \in SourceStates : SourceChange(s)

SpecList == InitList /\ [][NextList]_vars

\* Catalog management: --restore, --delete and command lines without an
\* operation, with instant backups between them.
ManageArgs == RestoreArgs \cup DeleteArgs \cup OtherArgs \cup PlainInstantArgs

InitManage ==
    /\ Init
    /\ source = SourceDir(TreeA)
    /\ ~build.fileSizeOfDirThrows

NextManage ==
    \/ \E args \in ManageArgs, mkdirFails \in BOOLEAN :
          Invoke(args, mkdirFails)
    \/ DoRestore
    \/ DoDelete
    \/ DoInstant
    \/ DoNothing
    \/ PerformBackup
    \/ InstantReturn

SpecManage == InitManage /\ [][NextManage]_vars

\* Creating and restoring: SpecManage with a source that changes between
\* the processes.
NextRoundTrip ==
    \/ NextManage
    \/ \E s \in SourceStates : SourceChange(s)

SpecRoundTrip == InitManage /\ [][NextRoundTrip]_vars

\* make_timestamp_folder_name alone, at two instants of the system clock
\* in one zone.  The instants are around the end of a year, the end of
\* February of a leap year, and the two ends of the summer time.
NameTimes ==
    {OldBase, OldBase + 59 * SecondsPerDay + 86399,
     OldBase + 60 * SecondsPerDay,
     SummerTimeStart - 1, SummerTimeStart,
     SummerTimeEnd - 3600, SummerTimeEnd - 1, SummerTimeEnd,
     WallBase, WallBase + 1}

InitNames ==
    /\ rootExists = FALSE
    /\ entries = NoEntries
    /\ source = SourceMissing
    /\ target = TargetMissing
    /\ now = 0
    /\ build = [fileSizeOfDirThrows |-> FALSE]
    /\ readme = FALSE
    /\ probe \in {[zone |-> z, t1 |-> p[1], t2 |-> p[2], done |-> FALSE,
                   name1 |-> <<>>, name2 |-> <<>>] :
                    z \in Zones,
                    p \in {q \in NameTimes \X NameTimes : q[1] < q[2]}}
    /\ pc = "idle"
    /\ config = NoConfig
    /\ backups = <<>>
    /\ newBackupName = <<>>
    /\ success = FALSE
    /\ startTime = 0
    /\ exitCode = 0
    /\ out = <<>>
    /\ scanned = {}
    /\ evicted = <<>>
    /\ prev = NoPrev
    /\ runs = 0
    /\ cycles = 0
    /\ lastOp = "none"
    /\ created = FALSE
    /\ events = 0

MakeNames ==
    /\ ~probe.done
    /\ probe.zone \in Zones
    /\ probe' = [probe EXCEPT !.done = TRUE,
                              !.name1 = NameIn(probe.zone, probe.t1),
                              !.name2 = NameIn(probe.zone, probe.t2)]
    /\ UNCHANGED <<rootExists, entries, source, target, now, build, readme,
                   procVars, histVars, events>>

NextNames == MakeNames

SpecNames == InitNames /\ [][NextNames]_vars

\* The dispatch of main: command lines that give --now, --daemon or both,
\* alone or together with any of --list, --restore and --delete.
MixedArgs ==
    {[BaseArgs EXCEPT !.list = l, !.restore = r, !.restoreTo = "TARGET",
                      !.delete = d, !.instant = m[1], !.daemon = m[2],
                      !.max = k, !.interval = NumText(1)] :
        l \in BOOLEAN, r \in {NoArg, Arg(OldName(0))},
        d \in {NoArg, Arg(OldName(1))},
        m \in {<<TRUE, FALSE>>, <<FALSE, TRUE>>, <<TRUE, TRUE>>},
        k \in {NumText(0), NumText(1)}}

NextDispatch ==
    \/ \E args \in MixedArgs, mkdirFails \in BOOLEAN :
          Invoke(args, mkdirFails)
    \/ DoList
    \/ DoRestore
    \/ DoDelete
    \/ DoInstant
    \/ DoDaemon
    \/ PerformBackup
    \/ InstantReturn
    \/ DaemonCycleStart
    \/ DaemonWait

SpecDispatch == InitManage /\ [][NextDispatch]_vars

(***************************************************************************)
(* The properties.                                                         *)
(***************************************************************************)
\* The snapshot directories under the backup root: the directories whose
\* name begins with Backup_.
IsSnapshotName(n) ==
    Len(n) >= Len(BackupPrefix) /\ SubSeq(n, 1, Len(BackupPrefix)) = BackupPrefix

SnapshotDirs(es) == {n \in DOMAIN es : es[n].dir /\ IsSnapshotName(n)}

Range(q) == {q[i] : i \in 1..Len(q)}

\* C1: whenever perform_backup returns success with maxBackups >= 1, the
\* backup root holds at most maxBackups snapshot directories, whatever the
\* catalog was before and however many cycles came before.
C1_RetentionBound ==
    (pc = "pb_ret" /\ success /\ config.maxBackups >= 1)
        => Cardinality(SnapshotDirs(entries)) <= config.maxBackups

\* A later cycle of the daemon has evicted and created, and the root holds
\* exactly maxBackups snapshots.
C1_Witness ==
    /\ pc = "pb_ret" /\ success /\ cycles >= 2
    /\ config.maxBackups = MaxKeep
    /\ evicted # <<>>
    /\ Cardinality(SnapshotDirs(entries)) = config.maxBackups

\* C2: retention evicts in ascending name order: each evicted snapshot is
\* named before every scanned snapshot that was not evicted before it, and
\* of the three snapshots of 2024-01-01, -02 and -03 with maxBackups = 2 the
\* first one evicted is Backup_2024-01-01_00-00-00.
C2_EvictionOrder ==
    /\ \A i \in 1..Len(evicted) :
         \A n \in scanned \ Range(SubSeq(evicted, 1, i)) :
           StrLess(evicted[i], n)
    /\ (/\ scanned = {OldName(0), OldName(1), OldName(2)}
        /\ config.maxBackups = 2
        /\ pc \in {"pb_copy", "pb_ret"}
        /\ success \/ pc = "pb_copy")
         => /\ evicted # <<>>
            /\ evicted[1] = OldName(0)
            /\ OldName(2) \in DOMAIN entries

\* The three snapshots with maxBackups = 2, after the loop.
C2_Witness ==
    /\ pc = "pb_copy"
    /\ scanned = {OldName(0), OldName(1), OldName(2)}
    /\ config.maxBackups = 2
    /\ evicted = <<OldName(0), OldName(1)>>
    /\ OldName(0) \notin DOMAIN entries

FailureLogged(o) == o # <<>> /\ o[Len(o)] = Msg("BackupFailedWillRetry")

\* C3: in the daemon a failed perform_backup is logged and the loop goes
\* on: the step after the failure leads to the top of the loop, not out of
\* the process, the next step from there starts a cycle, and that cycle
\* starts no earlier than the start of the failed one plus the interval.
C3_FailureNotFatal ==
    /\ [][(pc = "pb_ret" /\ ~config.instant /\ ~success)
            => /\ pc' = "d_top"
               /\ FailureLogged(out')
               /\ now' >= startTime + IntervalSeconds(config)]_vars
    /\ [][(pc = "d_top" /\ prev # NoPrev /\ ~prev.ok /\ pc' # pc)
            => /\ pc' = "pb_begin"
               /\ startTime' >= prev.start + IntervalSeconds(config)]_vars
    /\ []((pc = "pb_begin" /\ prev # NoPrev /\ ~prev.ok)
            => startTime >= prev.start + IntervalSeconds(config))

\* A cycle that follows a cycle that failed on a missing source, one
\* interval after it.
C3_Witness ==
    /\ pc = "pb_begin" /\ lastOp = "daemon"
    /\ prev # NoPrev /\ ~prev.ok
    /\ config.interval = 1
    /\ startTime = prev.start + SecondsPerMinute

\* C4: every cycle of the daemon after the first starts at the later of the
\* previous start plus the interval and the previous end: consecutive
\* starts are at least the interval apart, and a cycle that overran is
\* followed at once by one cycle, whose own successor waits again.
C4_FixedAnchor ==
    (pc = "pb_begin" /\ prev # NoPrev)
        => /\ startTime = Max2(prev.start + IntervalSeconds(config), prev.end)
           /\ startTime - prev.start >= IntervalSeconds(config)

\* A cycle that starts at the end of a cycle that overran its interval.
C4_Witness ==
    /\ pc = "pb_begin" /\ prev # NoPrev
    /\ config.interval = 1
    /\ prev.end > prev.start + IntervalSeconds(config)
    /\ startTime = prev.end

\* The cycle after that one, an interval after its start and not at the
\* second multiple of the interval.
C4_NoReplay ==
    /\ pc = "pb_begin" /\ cycles = 3
    /\ config.interval = 1
    /\ prev.start = SecondsPerMinute + 1
    /\ startTime = prev.start + SecondsPerMinute

\* C5: a restore of a name that is not under the backup root ends the
\* process with code 1 and leaves the target path as it was from the start
\* of the process on: no parent directory is created, no target is removed.
C5_RestoreMissingName ==
    /\ [][(NoProcess /\ pc' = "dispatch" /\ config'.restoreBackup.has)
            => target' = target]_vars
    /\ [][(/\ pc = "dispatch"
           /\ ~config.listBackups
           /\ config.restoreBackup.has
           /\ config.restoreBackup.val \notin DOMAIN entries)
            => /\ pc' = "exited"
               /\ exitCode' = 1
               /\ target' = target]_vars

\* The restore of a missing name to an existing target has ended.
C5_Witness ==
    /\ pc = "exited" /\ lastOp = "restore"
    /\ exitCode = 1
    /\ out = <<MsgN("BackupNotFound", MissingName)>>
    /\ target = TargetDir(TreeT)

\* C6: a retention count of 0 is rejected when the arguments are
\* validated: no process gets past parse_arguments with maxBackups = 0, and
\* the retention loop is never entered with it.
C6_ZeroRetentionRejected ==
    pc \in {"pb_evict", "crashed", "hung"} => config.maxBackups >= 1

\* C7: when the conversion to local time fails, perform_backup returns
\* failure and nothing is created under the name Backup_Error.
C7_ClockFailureAborts ==
    (pc = "pb_ret" /\ newBackupName = BackupErrorName)
        => ~success /\ BackupErrorName \notin DOMAIN entries

\* The snapshots that hold every file of a state of the source.  (No part
\* of one of the model's source trees is another of them.)
WholeSnapshots(es) ==
    {n \in SnapshotDirs(es) :
       es[n].tree \in {s.tree : s \in SourceStates} \ {EmptyTree}}

\* C8: a create never changes a snapshot that was written: over the copy
\* of perform_backup every whole snapshot of the root stays, with the
\* contents it had, also when the interval is 0 and two cycles fall into
\* one second.
C8_SnapshotImmutable ==
    [][pc = "pb_copy"
         => \A n \in WholeSnapshots(entries) :
              n \in DOMAIN entries' /\ entries'[n] = entries[n]]_vars

\* C9: the entries of the backup root that are not snapshot directories
\* stay as they are over every step, are not in the vector that retention
\* counts and evicts from, and are not in the lines --list prints.
C9_StraysIgnored ==
    /\ [][\A n \in (DOMAIN entries) \ SnapshotDirs(entries) :
            n \in DOMAIN entries' /\ entries'[n] = entries[n]]_vars
    /\ [](pc = "pb_evict"
            => /\ Range(backups) = SnapshotDirs(entries)
               /\ Len(backups) = Cardinality(SnapshotDirs(entries))
               /\ Range(evicted) \cap DOMAIN entries = {})
    /\ [](\A n \in scanned \cup Range(evicted) : IsSnapshotName(n))
    /\ []((pc = "exited" /\ lastOp = "list")
            => \A i \in 1..Len(out) :
                 out[i].msg = "Entry" => out[i].name \in SnapshotDirs(entries))

\* A --list after an instant backup, in a root that holds the four entries
\* that are not snapshots.
C9_Witness ==
    /\ pc = "exited" /\ lastOp = "list" /\ runs = 2
    /\ DOMAIN Strays \subseteq DOMAIN entries
    /\ \A n \in DOMAIN Strays : entries[n] = Strays[n]
    /\ make_timestamp_folder_name(WallBase, TRUE) \in DOMAIN entries
    /\ OldName(0) \notin DOMAIN entries
    /\ Len(out) >= 3

\* C10: --list with no backup root, or with a root that holds no snapshot
\* directory, says that there are no backups and returns 0, and the file
\* system is after the process as it was before it: no root is created.
C10_ListNothing ==
    /\ [][(NoProcess /\ pc' = "dispatch" /\ config'.listBackups)
            => fsVars' = fsVars]_vars
    /\ [][(/\ pc = "dispatch"
           /\ config.listBackups
           /\ ~rootExists \/ SnapshotDirs(entries) = {})
            => /\ pc' = "exited"
               /\ exitCode' = 0
               /\ out' = <<Msg(IF rootExists THEN "NoBackupsFound"
                               ELSE "NoBackupDirectoryFound")>>
               /\ fsVars' = fsVars
               /\ <<source, target>>' = <<source, target>>]_vars

\* --list has ended where there is no backup root.
C10_Witness ==
    /\ pc = "exited" /\ lastOp = "list"
    /\ ~rootExists
    /\ exitCode = 0
    /\ out = <<Msg("NoBackupDirectoryFound")>>

\* --list has ended in a root that holds entries but no snapshot.
C10_WitnessStrays ==
    /\ pc = "exited" /\ lastOp = "list"
    /\ rootExists /\ entries = Strays
    /\ exitCode = 0
    /\ out = <<Msg("NoBackupsFound")>>

\* C11: round trip.  A copy of perform_backup that succeeds leaves in the
\* new snapshot exactly the files the source holds, and a restore that
\* succeeds leaves at the target exactly the files of the snapshot, also
\* when there was a target before.
C11_RoundTrip ==
    /\ [][(pc = "pb_copy" /\ pc' = "pb_ret" /\ success')
            => entries'[newBackupName] = Dir(source.tree)]_vars
    /\ [][(pc = "dispatch" /\ pc' = "exited" /\ lastOp' = "restore"
           /\ exitCode' = 0)
            => /\ target'.kind = "dir"
               /\ target'.tree = entries[config.restoreBackup.val].tree]_vars

\* The step of the retention loop in which fs::remove_all throws.
EvictFailsStep ==
    pc = "pb_evict" /\ events' # events /\ newBackupName' = newBackupName

C13_CountAfterCreate ==
    (pc = "pb_ret" /\ success /\ config.maxBackups >= 1)
        => Cardinality(SnapshotDirs(entries))
             = Min2(Cardinality(scanned), config.maxBackups - 1) + 1

\* C14: of two instants at least a second apart, the earlier one gets the
\* smaller name under std::string comparison.
C14_NameOrder ==
    probe.done => StrLess(probe.name1, probe.name2)

\* C15: --delete with any name removes nothing but <root>/<name>: the
\* backup root is still there afterwards, every other entry is as it was,
\* and when <root>/<name> is not an entry the process returns 1 and the
\* catalog is unchanged.
C15_DeleteOnlyNamed ==
    [][(pc = "dispatch" /\ lastOp' = "delete")
         => LET name == config.deleteBackup.val
            IN  /\ rootExists'
                /\ \A n \in (DOMAIN entries) \ {name} :
                     n \in DOMAIN entries' /\ entries'[n] = entries[n]
                /\ name \notin DOMAIN entries
                     => exitCode' = 1 /\ entries' = entries]_vars

\* C16: with --now, --daemon or both on the command line, an invocation
\* that gives --list, --restore or --delete runs that one operation and
\* ends: list before restore before delete before the instant backup
\* before the daemon.  perform_backup and the daemon loop are only entered
\* when none of the three was given, and the step of list, restore and
\* delete creates no snapshot and removes none but the one --delete names.
C16_OneOperation ==
    /\ [](pc \in {"pb_begin", "pb_evict", "pb_copy", "pb_ret", "d_top",
                  "crashed", "hung"}
            => /\ ~config.listBackups
               /\ ~config.restoreBackup.has
               /\ ~config.deleteBackup.has
               /\ config.instant \/ config.daemon
               /\ config.instant => pc # "d_top")
    /\ [][pc = "dispatch"
            => LET op == IF config.listBackups THEN "list"
                         ELSE IF config.restoreBackup.has THEN "restore"
                         ELSE IF config.deleteBackup.has THEN "delete"
                         ELSE IF config.instant THEN "instant"
                         ELSE "daemon"
               IN  /\ lastOp' = op
                   /\ op \in {"list", "restore", "delete"}
                        => /\ pc' = "exited"
                           /\ rootExists' = rootExists
                           /\ DOMAIN entries' \subseteq DOMAIN entries
                           /\ \A n \in DOMAIN entries :
                                (op = "delete" /\ n = config.deleteBackup.val)
                                \/ (n \in DOMAIN entries'
                                    /\ entries'[n] = entries[n])
                   /\ op = "instant" => pc' = "pb_begin"
                   /\ op = "daemon" => pc' = "d_top"]_vars

\* A restore has ended with success (every command line of SpecDispatch
\* also gives --now or --daemon) and the snapshots are all there.
C16_Witness ==
    /\ pc = "exited" /\ lastOp = "restore" /\ exitCode = 0
    /\ runs = 1
    /\ target = TargetDir(TreeA)
    /\ DOMAIN entries = {OldName(0), OldName(1), OldName(2)}

\* The names --list printed, in the order of the lines.
ListedNames ==
    [i \in 1..(Len(out) - 1) |-> out[i + 1].name]

\* C17: --list in a root with snapshots prints every snapshot once, in
\* strictly descending order of the names, and returns 0; what it prints
\* is fixed by the entries of the root.
C17_ListNewestFirst ==
    (pc = "exited" /\ lastOp = "list" /\ rootExists
     /\ SnapshotDirs(entries) # {})
        => /\ exitCode = 0
           /\ out[1] = Msg("AvailableBackups")
           /\ Len(out) = Cardinality(SnapshotDirs(entries)) + 1
           /\ Range(ListedNames) = SnapshotDirs(entries)
           /\ \A i \in 1..(Len(out) - 1) : out[i + 1].msg = "Entry"
           /\ \A i, j \in 1..(Len(out) - 1) :
                i < j => StrLess(ListedNames[j], ListedNames[i])

\* C18: the scan of the retention pass takes a backup root that is not
\* there for an empty catalog: with a source directory and a source path,
\* perform_backup goes on from the scan to the retention loop and the
\* copy, and a cycle of the daemon without a root can return success.
C18_MissingRootIsEmpty ==
    [][(pc = "pb_begin" /\ ~rootExists /\ source.kind = "dir"
        /\ events' = events)
         => pc' = "pb_evict" /\ backups' = <<>>]_vars

\* C19: with maxBackups >= 1 and n snapshots found by the scan, the
\* retention loop ends after max(0, n - maxBackups + 1) evictions, and
\* min(n, maxBackups - 1) snapshots are left, in the vector and in the
\* root.
C19_EvictionCount ==
    (pc = "pb_copy" /\ config.maxBackups >= 1)
        => LET n == Cardinality(scanned)
           IN  /\ Len(evicted) = Max2(0, n - config.maxBackups + 1)
               /\ Len(backups) = Min2(n, config.maxBackups - 1)
               /\ Cardinality(SnapshotDirs(entries))
                    = Min2(n, config.maxBackups - 1)

\* Three snapshots and maxBackups = 1: the loop has ended after three
\* evictions.
C19_Witness ==
    /\ pc = "pb_copy" /\ config.maxBackups = 1
    /\ Cardinality(scanned) = 3
    /\ Len(evicted) = 3
    /\ SnapshotDirs(entries) = {}

\* No eviction where the catalog is below maxBackups.
C19_WitnessNone ==
    /\ pc = "pb_copy" /\ config.maxBackups = 2
    /\ Cardinality(scanned) = 1
    /\ evicted = <<>>

\* C20: a cycle whose source is missing or is not a directory, or whose
\* config file gives no source path, fails before the retention pass:
\* perform_backup returns failure from its first step with the root as it
\* was, nothing scanned and nothing evicted, and the root is still as it
\* was when the process goes on from the return.
C20_SourceFailureBeforeRetention ==
    /\ [][(/\ pc = "pb_begin"
           /\ source.kind # "dir" \/ events' # events)
            => /\ pc' = "pb_ret" /\ ~success'
               /\ fsVars' = fsVars
               /\ scanned' = scanned /\ evicted' = evicted
               /\ backups' = backups]_vars
    /\ []((pc = "pb_ret" /\ source.kind # "dir")
            => ~success /\ evicted = <<>> /\ scanned = {})
    /\ [][(pc = "pb_ret" /\ ~success /\ scanned = {} /\ evicted = <<>>
           /\ pc' # pc)
            => fsVars' = fsVars]_vars

\* A cycle has failed on a missing source in a root that holds more
\* snapshots than maxBackups: all of them are there.
C20_Witness ==
    /\ pc = "pb_ret" /\ ~success
    /\ source.kind = "missing"
    /\ config.maxBackups = 1
    /\ DOMAIN entries = {OldName(0), OldName(1), OldName(2)}
    /\ out[Len(out)] = Msg("SourceDoesNotExist")

\* The same for a config file that gives no path.
C20_WitnessNoPath ==
    /\ pc = "pb_ret" /\ ~success
    /\ source.kind = "dir" /\ config.sourcePath = ""
    /\ events = 1 /\ scanned = {}
    /\ Cardinality(SnapshotDirs(entries)) = 3

\* The trees a recursive copy that ran to its end leaves: all of the source
\* as it was at some time.
FullTrees == {s.tree : s \in {t \in SourceStates : t.kind = "dir"}}

\* The snapshots that hold all of some state of the source.
CompleteSnapshots(es) == {n \in SnapshotDirs(es) : es[n].tree \in FullTrees}

\* C21: once some perform_backup has returned true, the backup root holds
\* at least one completely written snapshot whenever a later
\* perform_backup of a process with maxBackups >= 1 returns, also when
\* fs::copy failed partway; the pass is one that wrote under a name the
\* scan had not found, and the backup root was not removed from outside.
C21_CompleteSnapshotKept ==
    (/\ created
     /\ pc = "pb_ret"
     /\ config.maxBackups >= 1
     /\ rootExists
     /\ newBackupName \notin scanned)
        => CompleteSnapshots(entries) # {}
====
